---------------------------- MODULE Spec2Model ----------------------------
(***************************************************************************)
(* Model of chonkie's RecursiveChunker (src/chonkie/chunker/recursive.py)  *)
(* and of its rule types (src/chonkie/types/recurisve.py).                 *)
(*                                                                         *)
(* A text is a sequence of one-character strings.  The chunker reads the   *)
(* rule attributes as .whitespace / .delimiters while the dataclass names  *)
(* them whitespace_delimiter / custom_delimiters (its __repr__ prints them *)
(* under the short names); the model identifies the two spellings.  The    *)
(* driver's call self._chunk_helper(split, level + 1, full_text) is the    *)
(* recursive call of _recursive_chunk ("Recursive helper for core          *)
(* chunking").  Both sides of the conflict left in __init__ (lines 66-70)  *)
(* raise the same ValueError.  Not modelled, because chunk() cannot reach  *)
(* them: the `full_text is None` defaults (chunk passes the text) and the  *)
(* ValueError for a return_type that __init__ has already rejected.        *)
(***************************************************************************)
EXTENDS Integers, Sequences, FiniteSets, TLC

VARIABLES pc,        \* position of the scenario being run
          chunker,   \* the RecursiveChunker object (its attributes), or NoVal
          doc,       \* the text handed to chunk()
          result,    \* what chunk() returned: [err, chunks]
          lvl,       \* SpecRules: outcome of the last RecursiveLevel(...) call
          hier,      \* SpecRules: outcome of the last RecursiveRules(...) call
          pk,        \* SpecPacker: arguments and outcome of _merge_splits
          cache,     \* SpecEstimator: the lru_cache of _estimate_token_count
          last,      \* SpecEstimator: the last _estimate_token_count call
          sp,        \* SpecSplitter: arguments and outcome of _split_text
          stack      \* SpecDriver: the frames of _recursive_chunk in progress

vars == <<pc, chunker, doc, result, lvl, hier, pk, cache, last, sp, stack>>

NoVal == [none |-> TRUE]

------------------------------------------------------------------------------
(* Bounds of the model.                                                     *)

\* longest text handed to chunk()
MaxLen == 4
\* largest chunk_size a chunker is constructed with
MaxChunkSize == 2

\* the private separator marker, self.sep ("✄" in the source)
sep == "#"

\* characters texts are drawn from: letters, the space, a delimiter, the marker
Alphabet == {"a", "b", " ", ".", sep}

------------------------------------------------------------------------------
(* Python str helpers.                                                      *)

Min2(a, b) == IF a <= b THEN a ELSE b
Max2(a, b) == IF a >= b THEN a ELSE b

RECURSIVE Flatten(_)
\* "".join(parts)
Flatten(parts) ==
    IF parts = <<>> THEN <<>> ELSE Head(parts) \o Flatten(Tail(parts))

RECURSIVE JoinWith(_, _)
\* glue.join(parts)
JoinWith(parts, glue) ==
    IF parts = <<>> THEN <<>>
    ELSE IF Len(parts) = 1 THEN parts[1]
    ELSE parts[1] \o glue \o JoinWith(Tail(parts), glue)

\* hay[from:] for 0 <= from (empty when from >= len(hay))
SliceFrom(hay, from) ==
    IF from >= Len(hay) THEN <<>> ELSE SubSeq(hay, from + 1, Len(hay))

\* hay.index(needle): the lowest 0-based offset of needle in hay, -1 for ValueError
StrIndex(hay, needle) ==
    LET hits == {i \in 0..(Len(hay) - Len(needle)) :
                    SubSeq(hay, i + 1, i + Len(needle)) = needle}
    IN IF hits = {} THEN -1 ELSE CHOOSE i \in hits : \A j \in hits : i <= j

RECURSIVE ReplaceFrom(_, _, _, _)
ReplaceFrom(text, old, new, i) ==
    IF i > Len(text) THEN <<>>
    ELSE IF i + Len(old) - 1 <= Len(text) /\ SubSeq(text, i, i + Len(old) - 1) = old
         THEN new \o ReplaceFrom(text, old, new, i + Len(old))
         ELSE <<text[i]>> \o ReplaceFrom(text, old, new, i + 1)

\* text.replace(old, new) for a non-empty old: non-overlapping, left to right
StrReplace(text, old, new) == ReplaceFrom(text, old, new, 1)

RECURSIVE SplitFrom(_, _, _, _)
SplitFrom(text, ch, i, cur) ==
    IF i > Len(text) THEN <<cur>>
    ELSE IF text[i] = ch THEN <<cur>> \o SplitFrom(text, ch, i + 1, <<>>)
    ELSE SplitFrom(text, ch, i + 1, Append(cur, text[i]))

\* text.split(ch) for a one-character ch: empty pieces are kept
StrSplit(text, ch) == SplitFrom(text, ch, 1, <<>>)

------------------------------------------------------------------------------
(* The external tokenizer.  The chunker needs count_tokens, encode and      *)
(* decode_batch only; the model takes the family of lossless fixed-width    *)
(* tokenizers: a token is a run of at most tokw characters.                 *)

TokWidths == {1, 2}

RECURSIVE encode(_, _)
\* tokenizer.encode(text): the token sequence of text
encode(tokw, text) ==
    IF text = <<>> THEN <<>>
    ELSE LET n == Min2(tokw, Len(text))
         IN <<SubSeq(text, 1, n)>> \o encode(tokw, SubSeq(text, n + 1, Len(text)))

\* tokenizer.count_tokens(text)
count_tokens(tokw, text) == Len(encode(tokw, text))

\* tokenizer.decode_batch(token_splits)
decode_batch(token_splits) ==
    [i \in 1..Len(token_splits) |-> Flatten(token_splits[i])]

------------------------------------------------------------------------------
(* RecursiveChunker._estimate_token_count, without its memo cache.          *)

\* max(1, len(text) // self._CHARS_PER_TOKEN) with _CHARS_PER_TOKEN = 6.5:
\* the floor of len/6.5 is the floor of 2*len/13
\* (variant: the quotient rounded up instead of down)
EstimateMutCeil(text) == Max2(1, (2 * Len(text) + 12) \div 13)
Estimate(text) == Max2(1, (2 * Len(text)) \div 13)

estimate_uncached(chunk_size, tokw, text) ==
    IF Estimate(text) > chunk_size
    THEN [val |-> chunk_size + 1, tok |-> FALSE]
    ELSE [val |-> count_tokens(tokw, text), tok |-> TRUE]

\* the value a chunker's estimator gives for text
estimate_token_count(self, text) ==
    estimate_uncached(self.chunk_size, self.tokw, text).val

------------------------------------------------------------------------------
(* RecursiveLevel attributes as the chunker reads them.                     *)

\* custom_delimiters: None, a str (val holds the one string), a list of str
DNone == [kind |-> "none", val |-> <<>>]
DStr(s) == [kind |-> "str", val |-> <<s>>]
DList(l) == [kind |-> "list", val |-> l]

\* `for delimiter in recursive_level.delimiters`: a list yields its members,
\* a str yields its characters one by one
DelimIter(d) ==
    IF d.kind = "list" THEN d.val ELSE [i \in 1..Len(d.val[1]) |-> <<d.val[1][i]>>]

\* truth value of recursive_level.delimiters
DelimTruthy(d) ==
    \/ d.kind = "list" /\ d.val # <<>>
    \/ d.kind = "str" /\ d.val[1] # <<>>

------------------------------------------------------------------------------
(* RecursiveChunker._split_text                                             *)

RECURSIVE RewriteDelims(_, _, _)
\* the three replace loops: every delimiter in turn, each on the rewritten text
RewriteDelims(text, delims, mode) ==
    IF delims = <<>> THEN text
    ELSE LET d == Head(delims)
             new == IF mode = "prev" THEN d \o <<sep>>
                    ELSE IF mode = "next" THEN <<sep>> \o d
                    ELSE <<sep>>
         IN RewriteDelims(StrReplace(text, d, new), Tail(delims), mode)

\* (variant: the delimiter is dropped whatever include_delim says)
RewriteDelimsMutDrop(text, delims, mode) == RewriteDelims(text, delims, "none")

RewriteText(text, delims, mode) == RewriteDelims(text, delims, mode)

\* (variant of the loop below: the fragments as split, nothing folded)
MergeShortMutNoFold(splits, minc, current, merged) == merged \o splits

RECURSIVE MergeShort(_, _, _, _)
\* the "Merge short splits" loop and its final flush
MergeShort(splits, minc, current, merged) ==
    IF splits = <<>>
    THEN (IF current # <<>> THEN Append(merged, current) ELSE merged)
    ELSE LET split == Head(splits)
             c1 == IF Len(split) < minc THEN current \o split
                   ELSE IF current # <<>> THEN <<>>
                   ELSE current
             m1 == IF Len(split) < minc THEN merged
                   ELSE IF current # <<>> THEN Append(merged, current \o split)
                   ELSE Append(merged, split)
             flush == Len(c1) >= minc
         IN MergeShort(Tail(splits), minc,
                       IF flush THEN <<>> ELSE c1,
                       IF flush THEN Append(m1, c1) ELSE m1)

split_text(self, text, rule) ==
    IF rule.whitespace THEN StrSplit(text, " ")
    ELSE IF DelimTruthy(rule.delimiters)
    THEN LET rewritten == RewriteText(text, DelimIter(rule.delimiters), rule.include_delim)
             raw == SelectSeq(StrSplit(rewritten, sep), LAMBDA s : s # <<>>)
         IN MergeShort(raw, self.min_characters_per_chunk, <<>>, <<>>)
    ELSE LET encoded == encode(self.tokw, text)
             nwin == (Len(encoded) + self.chunk_size - 1) \div self.chunk_size
             token_splits ==
                 [w \in 1..nwin |->
                     SubSeq(encoded, (w - 1) * self.chunk_size + 1,
                            Min2(w * self.chunk_size, Len(encoded)))]
         IN decode_batch(token_splits)

------------------------------------------------------------------------------
(* RecursiveChunker._merge_splits (the Packer)                              *)

RECURSIVE Accumulate(_, _, _)
\* list(accumulate([0] + token_counts, f)) with f = x + y (+ 1 per join when
\* combine_whitespace); acc is the running value, already emitted
Accumulate(token_counts, acc, extra) ==
    IF token_counts = <<>> THEN <<>>
    ELSE LET nxt == acc + Head(token_counts) + extra
         IN <<nxt>> \o Accumulate(Tail(token_counts), nxt, extra)

\* cum is the Python list, cum[k] for the 0-based k is CumAt(cum, k)
CumAt(cum, k) == cum[k + 1]

\* bisect_left(cum, x, lo=lo) on the sorted cum: the first 0-based position
\* at or after lo whose value is >= x, len(cum) when there is none
bisect_left(cum, x, lo) ==
    LET ge == {k \in lo..(Len(cum) - 1) : CumAt(cum, k) >= x}
    IN IF ge = {} THEN Len(cum) ELSE CHOOSE k \in ge : \A j \in ge : k <= j

\* the boundary search of one pass of the while loop (before the
\* "index == current_index" correction)
MergeIndex(cum, required_token_count, current_index, nsplits) ==
    Min2(bisect_left(cum, required_token_count, current_index) - 1, nsplits)

RECURSIVE MergeLoop(_, _, _, _, _, _, _)
\* the while loop: groups are the (current_index, index) pairs it forms
MergeLoop(splits, cum, chunk_size, cw, current_index, merged, combined) ==
    IF current_index >= Len(splits)
    THEN [err |-> "none", merged |-> merged, counts |-> combined]
    ELSE LET current_token_count == CumAt(cum, current_index)
             required_token_count == current_token_count + chunk_size
             i0 == MergeIndex(cum, required_token_count, current_index, Len(splits))
             index == IF i0 = current_index THEN i0 + 1 ELSE i0
             group == SubSeq(splits, current_index + 1, index)
             text == IF cw THEN JoinWith(group, <<" ">>) ELSE Flatten(group)
             count == CumAt(cum, Min2(index, Len(splits))) - current_token_count
         IN MergeLoop(splits, cum, chunk_size, cw, index,
                      Append(merged, text), Append(combined, count))

merge_splits(chunk_size, splits, token_counts, combine_whitespace) ==
    IF splits = <<>> \/ token_counts = <<>>
    THEN [err |-> "none", merged |-> <<>>, counts |-> <<>>]
    ELSE IF Len(splits) # Len(token_counts)
    THEN [err |-> "ValueError", merged |-> <<>>, counts |-> <<>>]
    ELSE IF \A i \in 1..Len(token_counts) : token_counts[i] > chunk_size
    THEN [err |-> "none", merged |-> splits, counts |-> token_counts]
    ELSE LET cum == <<0>> \o Accumulate(token_counts, 0,
                                        IF combine_whitespace THEN 1 ELSE 0)
         IN MergeLoop(splits, cum, chunk_size, combine_whitespace, 0, <<>>, <<>>)

------------------------------------------------------------------------------
(* RecursiveChunker._make_chunks                                            *)

make_chunks(text, token_count, level, full_text, last_chunk_end_index) ==
    LET found == StrIndex(SliceFrom(full_text, last_chunk_end_index), text)
        start_index == IF found < 0 THEN 0 ELSE last_chunk_end_index + found
        end_index == IF found < 0 THEN 0 ELSE start_index + Len(text)
    IN [text |-> text, start_index |-> start_index, end_index |-> end_index,
        token_count |-> token_count, level |-> level]

------------------------------------------------------------------------------
(* RecursiveChunker._recursive_chunk and chunk                              *)

\* `if token_count > self.chunk_size`: recurse instead of finalizing
\* (variant: one token of slack)
OverBudgetMutSlack(self, token_count) == token_count > self.chunk_size + 1
OverBudget(self, token_count) == token_count > self.chunk_size

RECURSIVE recursive_chunk(_, _, _, _)
RECURSIVE ChunkLoop(_, _, _, _, _, _, _, _)

\* the "Chunk long merged splits" loop over zip(merged, combined_token_counts)
ChunkLoop(self, merged, counts, i, chunks, level, search_text, full_text) ==
    IF i > Min2(Len(merged), Len(counts)) THEN chunks
    ELSE LET split == merged[i]
             token_count == counts[i]
             last_chunk_end_index ==
                 IF chunks = <<>> THEN 0 ELSE chunks[Len(chunks)].end_index
             out ==
                 IF OverBudget(self, token_count)
                 THEN recursive_chunk(self, split, level + 1, full_text)
                 ELSE IF self.return_type = "chunks"
                 THEN <<make_chunks(split, token_count, level, search_text,
                                    last_chunk_end_index)>>
                 ELSE <<split>>
         IN ChunkLoop(self, merged, counts, i + 1, chunks \o out, level,
                      search_text, full_text)

recursive_chunk(self, text, level, full_text) ==
    IF text = <<>> THEN <<>>
    ELSE IF level >= Len(self.rules.levels)
    THEN (IF self.return_type = "texts" THEN <<text>>
          ELSE <<make_chunks(text, estimate_token_count(self, text), level,
                             full_text, 0)>>)
    ELSE LET curr_rule == self.rules.levels[level + 1]
             splits == split_text(self, text, curr_rule)
             token_counts ==
                 [k \in 1..Len(splits) |-> estimate_token_count(self, splits[k])]
             no_delim == curr_rule.delimiters.kind = "none" /\ ~curr_rule.whitespace
             m == IF no_delim
                  THEN [err |-> "none", merged |-> splits, counts |-> token_counts]
                  ELSE merge_splits(self.chunk_size, splits, token_counts,
                                    curr_rule.delimiters.kind = "none"
                                        /\ curr_rule.whitespace)
         IN ChunkLoop(self, m.merged, m.counts, 1, <<>>, level,
                      IF no_delim THEN Flatten(m.merged) ELSE full_text, full_text)

\* chunk(text): len(self.rules) and self.rules[level] raise TypeError when the
\* hierarchy holds a bare RecursiveLevel instead of a list
chunk(self, text) ==
    IF text = <<>> THEN [err |-> "none", chunks |-> <<>>]
    ELSE IF self.rules.kind # "list" THEN [err |-> "TypeError", chunks |-> <<>>]
    ELSE [err |-> "none", chunks |-> recursive_chunk(self, text, 0, text)]

------------------------------------------------------------------------------
(* types/recurisve.py: RecursiveLevel and RecursiveRules                    *)

Level(ws, d, incl) == [whitespace |-> ws, delimiters |-> d, include_delim |-> incl]

\* RecursiveLevel._validate_fields: the error it raises, "none" when it returns
validate_fields(level) ==
    LET d == level.delimiters
    IN IF d.kind # "none" /\ level.whitespace THEN "NotImplementedError"
       ELSE IF d.kind = "str" /\ Len(d.val[1]) = 0 THEN "ValueError"
       ELSE IF d.kind = "list" /\ \E i \in 1..Len(d.val) : Len(d.val[i]) = 0
            THEN "ValueError"
       ELSE IF d.kind = "list" /\ \E i \in 1..Len(d.val) : d.val[i] = <<" ">>
            THEN "ValueError"
       ELSE "none"

\* RecursiveRules(levels=None): the five default levels ("=" stands for the
\* em dash and "^" for the backtick of the pauses level)
DefaultLevels ==
    << Level(FALSE, DList(<< <<"\n">>, <<"\n", "\n">>, <<"\r", "\n">> >>), "prev"),
       Level(FALSE, DList(<< <<".">>, <<"!">>, <<"?">> >>), "prev"),
       Level(FALSE, DList(<< <<"{">>, <<"}">>, <<"\"">>, <<"[">>, <<"]">>, <<"<">>,
                             <<">">>, <<"(">>, <<")">>, <<":">>, <<";">>, <<",">>,
                             <<"=">>, <<"|">>, <<"~">>, <<"-">>,
                             <<".", ".", ".">>, <<"^">>, <<"'">> >>), "prev"),
       Level(TRUE, DNone, "prev"),
       Level(FALSE, DNone, "prev") >>

RulesList(levels) == [kind |-> "list", levels |-> levels]
RulesSingle(level) == [kind |-> "single", levels |-> <<level>>]

\* the levels argument of RecursiveRules(...): None, one RecursiveLevel, a
\* list of RecursiveLevel objects, or something else
ArgNone == [kind |-> "none", levels |-> <<>>]
ArgSingle(level) == [kind |-> "single", levels |-> <<level>>]
ArgList(levels) == [kind |-> "list", levels |-> levels]
ArgOther == [kind |-> "other", levels |-> <<>>]

\* RecursiveRules.__post_init__: [err, rules]
rules_post_init(arg) ==
    IF arg.kind = "none"
    THEN [err |-> "none", rules |-> RulesList(DefaultLevels)]
    ELSE IF arg.kind \in {"single", "list"}
    THEN LET bad == {i \in 1..Len(arg.levels) : validate_fields(arg.levels[i]) # "none"}
         IN IF bad # {}
            THEN [err |-> validate_fields(arg.levels[CHOOSE i \in bad : \A j \in bad : i <= j]),
                  rules |-> NoVal]
            ELSE [err |-> "none",
                  rules |-> IF arg.kind = "list" THEN RulesList(arg.levels)
                            ELSE RulesSingle(arg.levels[1])]
    ELSE [err |-> "ValueError", rules |-> NoVal]

------------------------------------------------------------------------------
(* Rule hierarchies a chunker is constructed with.                          *)

Dot(incl) == Level(FALSE, DList(<< <<".">> >>), incl)
Word == Level(TRUE, DNone, "prev")
Token == Level(FALSE, DNone, "prev")

\* hierarchies built from nothing, from a list of rules, from a single rule
HierarchyArgs ==
    { ArgNone,
      ArgList(<<>>),
      ArgList(<<Dot("prev")>>),
      ArgList(<<Dot("next"), Word>>),
      ArgList(<<Dot("none")>>),
      ArgList(<<Word, Token>>),
      ArgList(<<Dot("prev"), Level(FALSE, DList(<<>>), "prev")>>),
      ArgList(<<Level(FALSE, DStr(<<".", "b">>), "next"), Dot("prev")>>),
      ArgSingle(Dot("prev")) }

\* the RecursiveRules objects these constructions return
Hierarchies ==
    {rules_post_init(a).rules : a \in {x \in HierarchyArgs : rules_post_init(x).err = "none"}}

\* an argument that is no RecursiveRules object
NotRules == [kind |-> "other", levels |-> <<>>]

RECURSIVE SeqsUpTo(_, _)
\* all sequences over S of length at most n
SeqsUpTo(S, n) ==
    IF n = 0 THEN {<<>>}
    ELSE LET shorter == SeqsUpTo(S, n - 1)
         IN shorter \cup {Append(t, c) : t \in {u \in shorter : Len(u) = n - 1}, c \in S}

Texts == SeqsUpTo(Alphabet, MaxLen)

------------------------------------------------------------------------------
(* Spec: construct a RecursiveChunker, then chunk one text with it.         *)

Idle == <<>>

Init ==
    /\ pc = "new"
    /\ chunker = NoVal
    /\ doc = <<>>
    /\ result = NoVal
    /\ lvl = Idle /\ hier = Idle /\ pk = Idle /\ cache = Idle /\ last = Idle
    /\ sp = Idle /\ stack = Idle

\* smallest and largest min_characters_per_chunk and the return types tried
MinCharsArgs == {0, 1, 2}
ReturnTypeArgs == {"chunks", "texts", "lines"}

\* RecursiveChunker.__init__
ChunkerInit ==
    /\ pc = "new"
    /\ \E tokw \in TokWidths, chunk_size \in 0..MaxChunkSize,
          rules \in Hierarchies \cup {NotRules},
          min_characters_per_chunk \in MinCharsArgs,
          return_type \in ReturnTypeArgs :
          IF \/ chunk_size <= 0
             \/ min_characters_per_chunk <= 0
             \/ return_type \notin {"chunks", "texts"}
             \/ rules.kind \notin {"list", "single"}
          THEN /\ pc' = "ctor_error"
               /\ chunker' = NoVal
          ELSE /\ pc' = "ready"
               /\ chunker' = [chunk_size |-> chunk_size,
                              min_characters_per_chunk |-> min_characters_per_chunk,
                              return_type |-> return_type,
                              rules |-> rules,
                              tokw |-> tokw]
    /\ UNCHANGED <<doc, result, lvl, hier, pk, cache, last, sp, stack>>

\* RecursiveChunker.chunk
Chunk ==
    /\ pc = "ready"
    /\ \E text \in Texts :
          /\ doc' = text
          /\ result' = chunk(chunker, text)
    /\ pc' = "done"
    /\ UNCHANGED <<chunker, lvl, hier, pk, cache, last, sp, stack>>

Next == ChunkerInit \/ Chunk

Spec == Init /\ [][Next]_vars

------------------------------------------------------------------------------
(* Properties of chunk().                                                   *)

Returned == pc = "done" /\ result.err = "none"

\* the texts of the returned chunks, in emission order
ChunkTexts ==
    IF chunker.return_type = "texts" THEN result.chunks
    ELSE [i \in 1..Len(result.chunks) |-> result.chunks[i].text]

RECURSIVE Covers(_, _, _)
\* text is parts[1] parts[2] ... with at most one space between two parts
Covers(text, parts, first) ==
    IF parts = <<>> THEN text = <<>>
    ELSE \E k \in 0..(IF first THEN 0 ELSE Min2(1, Len(text))) :
            /\ \A j \in 1..k : text[j] = " "
            /\ LET rest == SliceFrom(text, k)
                   p == Head(parts)
               IN /\ Len(p) <= Len(rest)
                  /\ SubSeq(rest, 1, Len(p)) = p
                  /\ Covers(SliceFrom(rest, Len(p)), Tail(parts), FALSE)

\* every delimiter rule of the hierarchy keeps its delimiters (prev or next)
KeepsDelimiters ==
    \A i \in 1..Len(chunker.rules.levels) :
        LET r == chunker.rules.levels[i]
        IN (~r.whitespace /\ DelimTruthy(r.delimiters))
              => r.include_delim \in {"prev", "next"}

HasMarker(text) == \E i \in 1..Len(text) : text[i] = sep

\* C1 as stated: whenever chunk(text) returns, the chunk texts concatenated in
\* emission order give back text, up to spaces at the joins between chunks,
\* for every accepted hierarchy and every text.
C1_CoverageAnyConfig ==
    Returned => Covers(doc, ChunkTexts, TRUE)

\* C1 amended: the same, for hierarchies whose delimiter rules attach the
\* delimiter to the previous or the next fragment and texts that do not
\* contain the separator marker.
C1_Coverage ==
    (Returned /\ KeepsDelimiters /\ ~HasMarker(doc))
        => Covers(doc, ChunkTexts, TRUE)

\* a run of C1's case: a delimiter-keeping hierarchy split a text at a
\* delimiter and at a space, and the space fell on a join between two chunks
C1_Witness ==
    /\ Returned /\ KeepsDelimiters /\ ~HasMarker(doc)
    /\ Len(result.chunks) >= 3
    /\ Flatten(ChunkTexts) # doc
    /\ \E i \in 1..Len(ChunkTexts) :
          /\ ChunkTexts[i] # <<>>
          /\ ChunkTexts[i][Len(ChunkTexts[i])] = "."
    /\ \E i \in 1..Len(ChunkTexts) : ChunkTexts[i] = <<"b">>

ReturnedRecords == Returned /\ chunker.return_type = "chunks"

\* C2: every chunk record finalized below the terminal level has
\* token_count <= chunk_size; only a chunk finalized at level = len(rules)
\* may exceed it.
C2_Budget ==
    ReturnedRecords =>
        \A i \in 1..Len(result.chunks) :
            result.chunks[i].level < Len(chunker.rules.levels)
                => result.chunks[i].token_count <= chunker.chunk_size

\* a run with a terminal chunk over budget next to a full in-budget chunk
C2_Witness ==
    /\ ReturnedRecords
    /\ \E i \in 1..Len(result.chunks) :
          /\ result.chunks[i].level = Len(chunker.rules.levels)
          /\ result.chunks[i].token_count > chunker.chunk_size
    /\ \E i \in 1..Len(result.chunks) :
          /\ result.chunks[i].level < Len(chunker.rules.levels)
          /\ result.chunks[i].token_count = chunker.chunk_size

\* the (0, 0) offsets a failed lookup leaves on a chunk
Degraded(c) == c.start_index = 0 /\ c.end_index = 0 /\ c.text # <<>>

\* C3: every chunk record whose offsets are not the (0, 0) fallback has
\* text = document[start_index:end_index].
C3_OffsetValidity ==
    ReturnedRecords =>
        \A i \in 1..Len(result.chunks) :
            LET c == result.chunks[i]
            IN ~Degraded(c) =>
                  /\ c.start_index <= c.end_index
                  /\ c.end_index <= Len(doc)
                  /\ c.text = SubSeq(doc, c.start_index + 1, c.end_index)

\* C4: start_index is non-decreasing in emission order (over the chunks whose
\* lookup did not fail).
C4_Monotonic ==
    ReturnedRecords =>
        \A i, j \in 1..Len(result.chunks) :
            (i < j /\ ~Degraded(result.chunks[i]) /\ ~Degraded(result.chunks[j]))
                => result.chunks[i].start_index <= result.chunks[j].start_index

\* C9: once the hierarchy and the chunker are constructed without error,
\* chunk(text) completes without an error.
C9_NoErrorAfterConstruction ==
    pc = "done" => result.err = "none"

------------------------------------------------------------------------------
(* SpecRules: construct a RecursiveLevel, then a RecursiveRules.            *)

\* longest delimiter string and longest delimiter list tried
MaxDelimLen == 2
MaxDelims == 2

DelimChars == {" ", "."}
DelimStrings == SeqsUpTo(DelimChars, MaxDelimLen)

\* the custom_delimiters argument: None, a str, or a list of str
DelimArgs ==
    {DNone} \cup {DStr(t) : t \in DelimStrings}
            \cup {DList(l) : l \in SeqsUpTo(DelimStrings, MaxDelims)}

InitRules ==
    /\ pc = "rules"
    /\ lvl = Idle /\ hier = Idle
    /\ chunker = NoVal /\ doc = <<>> /\ result = NoVal
    /\ pk = Idle /\ cache = Idle /\ last = Idle
    /\ sp = Idle /\ stack = Idle

\* RecursiveLevel(whitespace_delimiter, custom_delimiters, include_delim):
\* __post_init__ validates the fields
NewLevel ==
    /\ pc = "rules"
    /\ \E ws \in BOOLEAN, d \in DelimArgs, incl \in {"prev", "next", "none"} :
          lvl' = [level |-> Level(ws, d, incl),
                  err |-> validate_fields(Level(ws, d, incl))]
    /\ pc' = "level"
    /\ UNCHANGED <<chunker, doc, result, hier, pk, cache, last, sp, stack>>

\* RecursiveRules(levels): levels is None, the rule just constructed, a list
\* holding it, or no rule at all
NewRules ==
    /\ pc = "level"
    /\ \E arg \in {ArgNone, ArgOther, ArgList(<<>>)}
                  \cup (IF lvl.err = "none"
                        THEN {ArgSingle(lvl.level), ArgList(<<lvl.level>>),
                              ArgList(<<Word, lvl.level>>)}
                        ELSE {}) :
          hier' = [arg |-> arg, out |-> rules_post_init(arg)]
    /\ pc' = "hier"
    /\ UNCHANGED <<chunker, doc, result, lvl, pk, cache, last, sp, stack>>

NextRules == NewLevel \/ NewRules

SpecRules == InitRules /\ [][NextRules]_vars

\* the delimiter strings a custom_delimiters argument names
DelimSet(d) ==
    {d.val[i] : i \in 1..Len(d.val)}

\* C7 (the listed cases are rejected): constructing a Level Rule signals an
\* error when whitespace mode comes with a non-empty delimiter set, when some
\* delimiter is the empty string, and when some delimiter is a single space,
\* whether the delimiters are given as a list or as a single string.
C7_ListedCasesRejected ==
    pc = "level" =>
        LET ds == DelimSet(lvl.level.delimiters)
        IN ((lvl.level.whitespace /\ ds # {}) \/ <<>> \in ds \/ <<" ">> \in ds)
              => lvl.err # "none"

------------------------------------------------------------------------------
(* SpecPacker: one call of _merge_splits.                                   *)

\* most fragments handed to the Packer and largest token count of a fragment
MaxFrags == 3
MaxCount == 3

InitPacker ==
    /\ pc = "packer"
    /\ pk = Idle
    /\ chunker = NoVal /\ doc = <<>> /\ result = NoVal
    /\ lvl = Idle /\ hier = Idle /\ cache = Idle /\ last = Idle
    /\ sp = Idle /\ stack = Idle

\* _merge_splits(splits, token_counts, combine_whitespace) on a chunker with
\* the given chunk_size; every fragment is one character long
MergeSplits ==
    /\ pc = "packer"
    /\ \E splits \in SeqsUpTo({<<"a">>, <<"b">>}, MaxFrags),
          token_counts \in SeqsUpTo(0..MaxCount, MaxFrags),
          chunk_size \in 1..MaxChunkSize,
          combine_whitespace \in BOOLEAN :
          pk' = [splits |-> splits, token_counts |-> token_counts,
                 chunk_size |-> chunk_size, combine_whitespace |-> combine_whitespace,
                 out |-> merge_splits(chunk_size, splits, token_counts, combine_whitespace)]
    /\ pc' = "packed"
    /\ UNCHANGED <<chunker, doc, result, lvl, hier, cache, last, sp, stack>>

NextPacker == MergeSplits

SpecPacker == InitPacker /\ [][NextPacker]_vars

RECURSIVE SumSeq(_)
SumSeq(q) == IF q = <<>> THEN 0 ELSE Head(q) + SumSeq(Tail(q))

\* number of fragments in the merged groups before group g (fragments are one
\* character long, so a direct-concatenation group has as many characters)
GroupStart(merged, g) == SumSeq([i \in 1..(g - 1) |-> Len(merged[i])])

\* C5: in direct-concatenation mode, with equal-length inputs that are not all
\* over chunk_size, every group is maximal: its counts sum to at most
\* chunk_size unless it is a single fragment, and a group that is not the last
\* cannot take the next fragment without exceeding chunk_size.
C5_PackerMaximal ==
    (/\ pc = "packed"
     /\ ~pk.combine_whitespace
     /\ Len(pk.splits) = Len(pk.token_counts)
     /\ \E i \in 1..Len(pk.token_counts) : pk.token_counts[i] <= pk.chunk_size)
    => /\ pk.out.err = "none"
       /\ Flatten(pk.out.merged) = Flatten(pk.splits)
       /\ \A g \in 1..Len(pk.out.merged) :
             LET b == GroupStart(pk.out.merged, g)
                 k == Len(pk.out.merged[g])
                 total == SumSeq(SubSeq(pk.token_counts, b + 1, b + k))
             IN /\ k >= 1
                /\ (total <= pk.chunk_size \/ k = 1)
                /\ (b + k < Len(pk.splits)
                       => total + pk.token_counts[b + k + 1] > pk.chunk_size)

\* C6: whenever the fragment and token-count sequences differ in length, also
\* when exactly one of them is empty, the Packer signals the error.
C6_LengthMismatchSignalled ==
    (pc = "packed" /\ Len(pk.splits) # Len(pk.token_counts))
        => pk.out.err = "ValueError"

------------------------------------------------------------------------------
(* SpecEstimator: calls of the memoized _estimate_token_count, interleaved  *)
(* across chunker instances.  @lru_cache on the method keeps one cache for  *)
(* the class, keyed by the call's arguments (self, text).                   *)

\* longest text handed to the estimator (the text of length n is n letters)
MaxEstLen == 13
\* entries the memo cache holds before it evicts (maxsize, 4096 in the source)
CacheMax == 2

EstTexts == {[i \in 1..n |-> "a"] : n \in 0..MaxEstLen}

\* the chunker instances that share the cache, with different chunk_size
EstChunkers ==
    { [id |-> 1, chunk_size |-> 1, tokw |-> 1],
      [id |-> 2, chunk_size |-> 2, tokw |-> 1] }

\* the key lru_cache makes of the call _estimate_token_count(self, text)
\* (variant: the text alone, whichever chunker calls)
CacheKeyMutTextOnly(self, text) == <<0, text>>
CacheKey(self, text) == <<self.id, text>>

InitEstimator ==
    /\ pc = "est"
    /\ cache = <<>>
    /\ last = [id |-> 0, chunk_size |-> 0, tokw |-> 1, text |-> <<>>, val |-> 0,
               tok |-> FALSE, hit |-> FALSE, evicted |-> FALSE, calls |-> 0]
    /\ chunker = NoVal /\ doc = <<>> /\ result = NoVal
    /\ lvl = Idle /\ hier = Idle /\ pk = Idle
    /\ sp = Idle /\ stack = Idle

\* self._estimate_token_count(text) through the lru_cache wrapper: a hit
\* returns the stored value and makes the entry the most recent; a miss runs
\* the function, stores the value and evicts the least recent entry when full
EstimateTokenCount ==
    /\ pc = "est"
    /\ \E self \in EstChunkers, text \in EstTexts :
          LET key == CacheKey(self, text)
              at == {i \in 1..Len(cache) : cache[i].key = key}
              hit == at # {}
              i == CHOOSE j \in at : TRUE
              r == estimate_uncached(self.chunk_size, self.tokw, text)
              val == IF hit THEN cache[i].val ELSE r.val
              full == Len(cache) >= CacheMax
              kept == IF hit THEN SelectSeq(cache, LAMBDA e : e.key # key)
                      ELSE IF full THEN Tail(cache)
                      ELSE cache
          IN /\ cache' = Append(kept, [key |-> key, val |-> val])
             /\ last' = [id |-> self.id, chunk_size |-> self.chunk_size,
                         tokw |-> self.tokw, text |-> text, val |-> val,
                         tok |-> (~hit /\ r.tok), hit |-> hit,
                         evicted |-> (last.evicted \/ (~hit /\ full)),
                         calls |-> 1]
    /\ UNCHANGED <<pc, chunker, doc, result, lvl, hier, pk, sp, stack>>

NextEstimator == EstimateTokenCount

SpecEstimator == InitEstimator /\ [][NextEstimator]_vars

Called == pc = "est" /\ last.calls > 0

\* C8 as stated: when len(text)/6.5 exceeds chunk_size (2*len > 13*chunk_size)
\* the estimator returns chunk_size + 1 without invoking the tokenizer, and
\* for every other text it returns the tokenizer's count.
C8_ThresholdExact ==
    Called =>
        IF 2 * Len(last.text) > 13 * last.chunk_size
        THEN last.val = last.chunk_size + 1 /\ ~last.tok
        ELSE last.val = count_tokens(last.tokw, last.text)

\* C8 amended: the short-circuit is taken when the floor of len(text)/6.5
\* exceeds chunk_size (2*len >= 13*(chunk_size + 1)); every other text gets
\* the tokenizer's count.
C8_ThresholdFloor ==
    Called =>
        IF 2 * Len(last.text) >= 13 * (last.chunk_size + 1)
        THEN last.val = last.chunk_size + 1 /\ ~last.tok
        ELSE last.val = count_tokens(last.tokw, last.text)

\* a call in the gap: len/6.5 exceeds chunk_size, its floor does not, and the
\* tokenizer was invoked
C8_Witness ==
    /\ Called
    /\ 2 * Len(last.text) > 13 * last.chunk_size
    /\ 2 * Len(last.text) < 13 * (last.chunk_size + 1)
    /\ last.tok
    /\ last.val = count_tokens(last.tokw, last.text)
    /\ last.val # last.chunk_size + 1

\* C10: every call on text t through a chunker with chunk_size c returns the
\* value of the un-memoized computation for (c, t), whatever calls came
\* before, and so does every entry the cache holds for that chunker.
C10_CacheIsolation ==
    Called =>
        /\ last.val = estimate_uncached(last.chunk_size, last.tokw, last.text).val
        /\ \A i \in 1..Len(cache) : \A self \in EstChunkers :
              cache[i].key[1] = self.id =>
                 cache[i].val =
                    estimate_uncached(self.chunk_size, self.tokw, cache[i].key[2]).val

\* a cache hit after an eviction, while the cache holds the same text under
\* the other chunk_size with a different value
C10_Witness ==
    /\ Called /\ last.hit /\ last.evicted
    /\ \E i \in 1..Len(cache) :
          /\ cache[i].key[2] = last.text
          /\ cache[i].key[1] # last.id
          /\ cache[i].val # last.val

------------------------------------------------------------------------------
(* SpecSplitter: one call of _split_text with a delimiter-mode rule.        *)

\* largest min_characters_per_chunk of the chunker whose Splitter is called
MaxMinChars == 3

\* delimiter-mode rules: one delimiter under each placement, two delimiters
\* given as a list, and two given as one string (iterated by character)
SplitRules ==
    { Dot("prev"), Dot("next"), Dot("none"),
      Level(FALSE, DList(<< <<".">>, <<"a">> >>), "prev"),
      Level(FALSE, DStr(<<".", "b">>), "next") }

InitSplitter ==
    /\ pc = "splitter"
    /\ sp = Idle
    /\ chunker = NoVal /\ doc = <<>> /\ result = NoVal
    /\ lvl = Idle /\ hier = Idle /\ pk = Idle /\ cache = Idle /\ last = Idle
    /\ stack = Idle

\* self._split_text(text, recursive_level) on a chunker with the given
\* min_characters_per_chunk
SplitText ==
    /\ pc = "splitter"
    /\ \E text \in Texts, rule \in SplitRules,
          min_characters_per_chunk \in 1..MaxMinChars :
          LET self == [chunk_size |-> 1,
                       min_characters_per_chunk |-> min_characters_per_chunk,
                       return_type |-> "chunks",
                       rules |-> RulesList(<<rule>>),
                       tokw |-> 1]
          IN sp' = [text |-> text, rule |-> rule,
                    min_characters_per_chunk |-> min_characters_per_chunk,
                    out |-> split_text(self, text, rule)]
    /\ pc' = "split"
    /\ UNCHANGED <<chunker, doc, result, lvl, hier, pk, cache, last, stack>>

NextSplitter == SplitText

SpecSplitter == InitSplitter /\ [][NextSplitter]_vars

\* the characters of the text that reach the fragments, in input order: the
\* marker never does, and a delimiter (one character in every rule of
\* SplitRules) does unless the rule drops delimiters
KeptChars(text, rule) ==
    SelectSeq(text, LAMBDA c :
        /\ c # sep
        /\ (rule.include_delim \in {"prev", "next"}
               \/ <<c>> \notin DelimSet(rule.delimiters)))

\* C11: for every text and every delimiter-mode rule, the fragments the
\* Splitter returns are non-empty pieces of the text in input order, and every
\* fragment except possibly the last has at least min_characters_per_chunk
\* characters.
C11_ShortFolding ==
    pc = "split" =>
        /\ Flatten(sp.out) = KeptChars(sp.text, sp.rule)
        /\ \A i \in 1..Len(sp.out) : sp.out[i] # <<>>
        /\ \A i \in 1..(Len(sp.out) - 1) :
              Len(sp.out[i]) >= sp.min_characters_per_chunk

\* a short piece was folded into the first fragment (the delimiter it ends
\* with sits inside the fragment) and the trailing accumulator was flushed
\* below the threshold
C11_Witness ==
    /\ pc = "split"
    /\ sp.rule = Dot("prev")
    /\ Len(sp.out) >= 2
    /\ Len(sp.out[Len(sp.out)]) < sp.min_characters_per_chunk
    /\ \E i \in 1..(Len(sp.out[1]) - 1) : sp.out[1][i] = "."

------------------------------------------------------------------------------
(* SpecDriver: chunk() run one step at a time.  Every call of               *)
(* _recursive_chunk in progress is a frame of the stack; the while loop of  *)
(* _merge_splits and the "Chunk long merged splits" loop advance one pass   *)
(* per step.  The chunks list a call returns is the part of result.chunks   *)
(* emitted since the call began (its caller extends its own list with it).  *)

\* longest text of a stepwise run
MaxDriverLen == 3

\* texts and chunkers of the stepwise runs
DriverTexts == SeqsUpTo({"a", " ", "."}, MaxDriverLen)

DriverHierarchies ==
    { RulesList(<<>>),
      RulesList(<<Dot("prev")>>),
      RulesList(<<Dot("next"), Word>>),
      RulesList(<<Word, Token>>),
      RulesList(<<Dot("prev"), Word, Token>>) }

DriverChunkers ==
    { [chunk_size |-> c, min_characters_per_chunk |-> 1, return_type |-> rt,
       rules |-> r, tokw |-> 1] :
         c \in 1..MaxChunkSize, rt \in {"chunks", "texts"}, r \in DriverHierarchies }

\* the frame of _recursive_chunk(text, level, full_text) at its first line;
\* token_count is the count of the merged fragment the caller recursed on
Frame(text, level, token_count) ==
    [text |-> text, level |-> level, token_count |-> token_count,
     phase |-> "entry", splits |-> <<>>, cum |-> <<>>, cw |-> FALSE,
     current_index |-> 0, merged |-> <<>>, combined |-> <<>>,
     i |-> 1, base |-> 0, search_text |-> <<>>]

Top == stack[Len(stack)]
SetTop(f) == [stack EXCEPT ![Len(stack)] = f]
Pop == SubSeq(stack, 1, Len(stack) - 1)
Emit(c) == [result EXCEPT !.chunks = Append(@, c)]
Running == pc = "running" /\ stack # <<>>

InitDriver ==
    /\ pc = "ready"
    /\ chunker \in DriverChunkers
    /\ doc = <<>>
    /\ result = NoVal
    /\ stack = <<>>
    /\ lvl = Idle /\ hier = Idle /\ pk = Idle /\ cache = Idle /\ last = Idle
    /\ sp = Idle

\* chunk(text): the call _recursive_chunk(text=text, level=0, full_text=text)
DriverCall ==
    /\ pc = "ready"
    /\ \E text \in DriverTexts :
          /\ doc' = text
          /\ stack' = <<Frame(text, 0, 0)>>
    /\ result' = [err |-> "none", chunks |-> <<>>]
    /\ pc' = "running"
    /\ UNCHANGED <<chunker, lvl, hier, pk, cache, last, sp>>

\* `if not text: return []`
ReturnEmpty ==
    /\ Running /\ Top.phase = "entry" /\ Top.text = <<>>
    /\ stack' = Pop
    /\ UNCHANGED <<pc, chunker, doc, result, lvl, hier, pk, cache, last, sp>>

\* `if level >= len(self.rules)`: the whole text is returned as one unit
Terminal ==
    /\ Running /\ Top.phase = "entry" /\ Top.text # <<>>
    /\ Top.level >= Len(chunker.rules.levels)
    /\ result' = Emit(IF chunker.return_type = "texts" THEN Top.text
                      ELSE make_chunks(Top.text, estimate_token_count(chunker, Top.text),
                                       Top.level, doc, 0))
    /\ stack' = Pop
    /\ UNCHANGED <<pc, chunker, doc, lvl, hier, pk, cache, last, sp>>

\* lines 265-283: split the text by the rule of the level, estimate the
\* fragments, and enter _merge_splits unless the rule is token-window; the
\* early returns of _merge_splits (nothing to merge, every fragment over
\* chunk_size) go straight to the loop over the merged fragments
Split ==
    /\ Running /\ Top.phase = "entry" /\ Top.text # <<>>
    /\ Top.level < Len(chunker.rules.levels)
    /\ \E curr_rule \in {chunker.rules.levels[Top.level + 1]} :
       \E splits \in {split_text(chunker, Top.text, curr_rule)} :
       \E token_counts \in
            {[k \in 1..Len(splits) |-> estimate_token_count(chunker, splits[k])]} :
          LET no_delim == curr_rule.delimiters.kind = "none" /\ ~curr_rule.whitespace
              cw == curr_rule.delimiters.kind = "none" /\ curr_rule.whitespace
              as_is == \/ no_delim
                       \/ splits = <<>>
                       \/ \A k \in 1..Len(token_counts) :
                             token_counts[k] > chunker.chunk_size
              f == [Top EXCEPT !.splits = splits,
                               !.cw = cw,
                               !.base = Len(result.chunks),
                               !.search_text = IF no_delim THEN Flatten(splits) ELSE doc]
          IN stack' = SetTop(
                 IF as_is
                 THEN [f EXCEPT !.phase = "emit", !.merged = splits,
                                !.combined = token_counts]
                 ELSE [f EXCEPT !.phase = "merge",
                                !.cum = <<0>> \o Accumulate(token_counts, 0,
                                                            IF cw THEN 1 ELSE 0)])
    /\ UNCHANGED <<pc, chunker, doc, result, lvl, hier, pk, cache, last, sp>>

\* `if index == current_index: index += 1` (variant: the index as found)
AdvanceIndexMutNone(index, current_index) == index
AdvanceIndex(index, current_index) ==
    IF index = current_index THEN index + 1 ELSE index

\* one pass of `while current_index < len(splits)`
MergeStep ==
    /\ Running /\ Top.phase = "merge"
    /\ Top.current_index < Len(Top.splits)
    /\ LET current_token_count == CumAt(Top.cum, Top.current_index)
           required_token_count == current_token_count + chunker.chunk_size
           index == AdvanceIndex(MergeIndex(Top.cum, required_token_count,
                                            Top.current_index, Len(Top.splits)),
                                 Top.current_index)
           group == SubSeq(Top.splits, Top.current_index + 1, index)
           text == IF Top.cw THEN JoinWith(group, <<" ">>) ELSE Flatten(group)
           count == CumAt(Top.cum, Min2(index, Len(Top.splits))) - current_token_count
       IN stack' = SetTop([Top EXCEPT !.merged = Append(@, text),
                                      !.combined = Append(@, count),
                                      !.current_index = index])
    /\ UNCHANGED <<pc, chunker, doc, result, lvl, hier, pk, cache, last, sp>>

\* the while loop ends: `return merged, combined_token_counts`
MergeReturn ==
    /\ Running /\ Top.phase = "merge"
    /\ Top.current_index >= Len(Top.splits)
    /\ stack' = SetTop([Top EXCEPT !.phase = "emit"])
    /\ UNCHANGED <<pc, chunker, doc, result, lvl, hier, pk, cache, last, sp>>

\* a pass of the for loop remains
MorePairs == Top.i <= Min2(Len(Top.merged), Len(Top.combined))

\* `if token_count > self.chunk_size`: the call on the merged fragment with
\* level + 1
Recurse ==
    /\ Running /\ Top.phase = "emit" /\ MorePairs
    /\ OverBudget(chunker, Top.combined[Top.i])
    /\ stack' = Append(SetTop([Top EXCEPT !.i = @ + 1]),
                       Frame(Top.merged[Top.i], Top.level + 1, Top.combined[Top.i]))
    /\ UNCHANGED <<pc, chunker, doc, result, lvl, hier, pk, cache, last, sp>>

\* the else branch: the merged fragment becomes a chunk of this level
Finalize ==
    /\ Running /\ Top.phase = "emit" /\ MorePairs
    /\ ~OverBudget(chunker, Top.combined[Top.i])
    /\ LET chunks == SubSeq(result.chunks, Top.base + 1, Len(result.chunks))
           last_chunk_end_index ==
               IF chunks = <<>> THEN 0 ELSE chunks[Len(chunks)].end_index
       IN result' = Emit(IF chunker.return_type = "chunks"
                         THEN make_chunks(Top.merged[Top.i], Top.combined[Top.i],
                                          Top.level, Top.search_text,
                                          last_chunk_end_index)
                         ELSE Top.merged[Top.i])
    /\ stack' = SetTop([Top EXCEPT !.i = @ + 1])
    /\ UNCHANGED <<pc, chunker, doc, lvl, hier, pk, cache, last, sp>>

\* the for loop ends: `return chunks`
Return ==
    /\ Running /\ Top.phase = "emit" /\ ~MorePairs
    /\ stack' = Pop
    /\ UNCHANGED <<pc, chunker, doc, result, lvl, hier, pk, cache, last, sp>>

\* the outermost call has returned to chunk()
Finish ==
    /\ pc = "running" /\ stack = <<>>
    /\ pc' = "returned"
    /\ UNCHANGED <<chunker, doc, result, lvl, hier, pk, cache, last, sp, stack>>

NextDriver ==
    \/ DriverCall \/ ReturnEmpty \/ Terminal \/ Split \/ MergeStep \/ MergeReturn
    \/ Recurse \/ Finalize \/ Return \/ Finish

\* the interpreter runs the next statement whenever there is one
SpecDriver == InitDriver /\ [][NextDriver]_vars /\ WF_vars(NextDriver)

\* the calls in progress form a chain from level 0: each deeper call has the
\* next level and was made on a merged fragment of its caller whose token
\* count exceeds chunk_size; no call is made past the last level, and only a
\* call below the last level splits its text
DepthBound ==
    LET n == Len(chunker.rules.levels)
    IN /\ \A k \in 1..Len(stack) :
             /\ stack[k].level = k - 1
             /\ stack[k].level <= n
             /\ stack[k].phase # "entry" => stack[k].level < n
       /\ \A k \in 2..Len(stack) :
             /\ stack[k].token_count > chunker.chunk_size
             /\ stack[k - 1].phase = "emit"
             /\ stack[k].text = stack[k - 1].merged[stack[k - 1].i - 1]
             /\ stack[k].token_count = stack[k - 1].combined[stack[k - 1].i - 1]

\* every chunk record emitted so far carries a level in 0..n
LevelsInRange ==
    (pc \in {"running", "returned"} /\ chunker.return_type = "chunks")
        => \A j \in 1..Len(result.chunks) :
              result.chunks[j].level \in 0..Len(chunker.rules.levels)

\* a pass of the Packer loop consumes at least one fragment
PackerProgress ==
    (/\ Running /\ Top.phase = "merge"
     /\ Len(stack') = Len(stack)
     /\ stack'[Len(stack)].phase = "merge")
    => /\ stack'[Len(stack)].current_index > Top.current_index
       /\ stack'[Len(stack)].current_index <= Len(Top.splits)

\* a step that emits a chunk emits one, with the level of the call that
\* finalizes it: the whole text of a call at the last level, or an in-budget
\* merged fragment of a call below it
EmitsAtOwnLevel ==
    (Running /\ result' # result)
    => LET n == Len(chunker.rules.levels)
           c == result'.chunks[Len(result'.chunks)]
           text == IF chunker.return_type = "chunks" THEN c.text ELSE c
       IN /\ result'.chunks = Append(result.chunks, c)
          /\ chunker.return_type = "chunks" => c.level = Top.level
          /\ IF Top.phase = "entry"
             THEN Top.level >= n /\ text = Top.text
             ELSE /\ Top.phase = "emit" /\ Top.level < n
                  /\ text = Top.merged[Top.i]
                  /\ Top.combined[Top.i] <= chunker.chunk_size

\* a step that makes a call makes one, with level + 1, on the merged
\* fragment at hand, whose token count exceeds chunk_size
RecursesOverBudget ==
    (Running /\ Len(stack') > Len(stack))
    => /\ Len(stack') = Len(stack) + 1
       /\ Top.level < Len(chunker.rules.levels)
       /\ stack'[Len(stack')].level = Top.level + 1
       /\ stack'[Len(stack')].text = Top.merged[Top.i]
       /\ Top.combined[Top.i] > chunker.chunk_size

\* the stepwise run returns what chunk(text) returns
DriverAgrees == pc = "returned" => result = chunk(chunker, doc)

\* C12: chunk(text) terminates for every text and every hierarchy of length
\* n; each pass of the Packer loop consumes at least one fragment; the driver
\* recurses only with level + 1 on a merged fragment whose token count
\* exceeds chunk_size; no call goes past level n, where the whole text is
\* emitted as one unit; every emitted chunk record carries the level, in
\* 0..n, of the call that finalized it.
C12_Termination ==
    /\ [](DepthBound /\ LevelsInRange /\ DriverAgrees)
    /\ [][PackerProgress /\ EmitsAtOwnLevel /\ RecursesOverBudget]_vars
    /\ <>(pc = "returned")

\* a run that has returned after recursing through both levels of a
\* two-level hierarchy: it finalized a chunk at level 0 and emitted a whole
\* over-budget text at the last level
C12_Witness ==
    /\ pc = "returned"
    /\ chunker.return_type = "chunks"
    /\ Len(chunker.rules.levels) = 2
    /\ \E j \in 1..Len(result.chunks) : result.chunks[j].level = 0
    /\ \E j \in 1..Len(result.chunks) :
          /\ result.chunks[j].level = 2
          /\ result.chunks[j].token_count > chunker.chunk_size


------------------------------------------------------------------------------
(* Token accounting of the Packer (checked under SpecPacker).               *)

\* number of fragments in a merged group: fragments are one character long,
\* and a whitespace join puts one space between adjacent fragments
GroupSize(m, cw) == IF cw THEN (Len(m) + 1) \div 2 ELSE Len(m)

\* number of fragments in the merged groups before group g
GroupBase(merged, g, cw) == SumSeq([i \in 1..(g - 1) |-> GroupSize(merged[i], cw)])

\* C13: the merged-fragment and merged-count sequences have equal length, and
\* the count reported for a merged group of k consecutive fragments is the sum
\* of their input token counts in direct-concatenation mode, and that sum
\* plus k - 1 (one per inserted space) in whitespace-join mode.
C13_TokenAccounting ==
    (/\ pc = "packed"
     /\ pk.out.err = "none"
     /\ Len(pk.splits) = Len(pk.token_counts))
    => /\ Len(pk.out.merged) = Len(pk.out.counts)
       /\ \A g \in 1..Len(pk.out.merged) :
             LET cw == pk.combine_whitespace
                 b == GroupBase(pk.out.merged, g, cw)
                 k == GroupSize(pk.out.merged[g], cw)
                 total == SumSeq(SubSeq(pk.token_counts, b + 1, b + k))
             IN pk.out.counts[g] = total + (IF cw THEN k - 1 ELSE 0)

==============================================================================
